---- MODULE Spec2Model ----
(***************************************************************************)
(* Model of src/gadgets.rs of ropr: the Gadget value type (equality, hash, *)
(* ordering) and GadgetIterator, the sliding-window search that yields     *)
(* every instruction chain of a predecessors table that ends exactly at a  *)
(* fixed tail instruction.                                                 *)
(*                                                                         *)
(* GadgetIterator::next is modelled statement by statement: one action per *)
(* basic block of the two nested loops, with the locals of next()          *)
(* (instructions, len, index) as variables.                                *)
(***************************************************************************)
EXTENDS Integers, Sequences, FiniteSets, TLC

\* ------------------------------------------------------------------------
\* Bounds of the model
\* ------------------------------------------------------------------------

\* Longest predecessors window handed to GadgetIterator::new.
MaxWin == 3

\* Largest max_instructions handed to GadgetIterator::new.
MaxCap == 3

\* How many times the caller goes on calling next() after a None.
MaxNones == 2

\* Most gadgets the caller collects before sorting them.
MaxVec == 3

\* Longest body of a gadget the pivot queries are asked of.
MaxBody == 2

\* How many pivot queries the caller asks of one gadget.
MaxQueries == 2

\* Longest table two enumerators are built over together.
MaxTwinWin == 2

\* ------------------------------------------------------------------------
\* Decoded instructions (iced_x86::Instruction) and the rule table
\* ------------------------------------------------------------------------

\* Instruction codes of the table: one per legality class of the rule table.
HeadCodes == {"pop", "in", "jmp"}

\* Codes of the tail instructions.
TailCodes == {"ret"}

\* Encoded byte lengths of the instructions of the table: 0 is the length
\* of Instruction::default(), 1 and 2 give chains that overlap.
InsLens == {0, 1, 2}

\* A decoded instruction: what it is (code) and its encoded byte length.
Instruction == [code : HeadCodes, len : InsLens]

\* Tail instructions an enumerator is built for: ret and ret imm16.
TailInstructions == [code : TailCodes, len : {1, 3}]

\* Instruction::len(): the encoded byte length.
InsLen(i) == i.len

\* rules::is_rop_gadget_head(instruction, noisy): may the instruction appear
\* before the tail.  "pop" always, "in" only in noisy mode, "jmp" never.
is_rop_gadget_head(i, noisy) ==
    \/ i.code = "pop"
    \/ (noisy /\ i.code = "in")

\* ------------------------------------------------------------------------
\* State
\* ------------------------------------------------------------------------

VARIABLES
    table,          \* the caller's slice handed to new(): never written
    s0,             \* the start_index handed to new()
    it,             \* the GadgetIterator: its six fields
    pc,             \* where the enumerator is: new, idle, outer, inner, ...
    instructions,   \* local Vec of next()
    len,            \* local len of next()
    index,          \* local index of next()
    ret,            \* what the last next() returned
    yielded,        \* log: every Some(gadget) returned so far, in order
    tried,          \* log: start_index at every entry of the outer loop body
    nones,          \* log: how many times next() has returned None
    gset,           \* the caller's HashSet<Gadget>
    gvec,           \* the caller's Vec<Gadget>
    gsorted,        \* gvec has been sorted
    unsorted,       \* log: gvec as it was when it was sorted
    qgadget,        \* the gadget the caller asks pivot queries of
    qlog,           \* log: the queries asked of qgadget and their answers
    shared,         \* the table two enumerators are built over
    twins,          \* the two enumerators over shared, each with its locals
    overflow_checks, \* the build the two enumerators run in panics on 0 - 1
    fgadget,        \* the gadget being rendered (self of format_*)
    fmode,          \* the rendering the caller asked for: "instruction" or "full"
    fpc,            \* position of the rendering call
    fnext,          \* position of the peekable iterator of format_instruction
    output          \* the FormatterOutput sink: the tokens written so far

\* Two enumerators over one table.
tvars == <<shared, twins, overflow_checks>>

\* One rendering of a gadget into a FormatterOutput.
fvars == <<fgadget, fmode, fpc, fnext, output>>

\* The caller's collections of gadgets, the gadget it queries, and the
\* enumerators it runs side by side.
gvars == <<gset, gvec, gsorted, unsorted, qgadget, qlog, tvars, fvars>>

vars == <<table, s0, it, pc, instructions, len, index, ret, yielded, tried, nones,
          gvars>>

\* Sequences over S of length 0..n.
SeqUpTo(S, n) == UNION {[1..k -> S] : k \in 0..n}

\* Arguments GadgetIterator::new is called with: section_start with
\* start_index, and the window.
StartArgs == {<<0, 0>>, <<64, 1>>}
Tables == SeqUpTo(Instruction, MaxWin)

\* Option<Gadget> values, and the value of ret while a call is running.
None == [kind |-> "none"]
Some(g) == [kind |-> "some", gadget |-> g]
Pending == [kind |-> "pending"]

\* The iterator before new() has run.
NoIterator == [section_start |-> 0, tail_instruction |-> [code |-> "ret", len |-> 1],
               predecessors |-> <<>>, max_instructions |-> 0, noisy |-> FALSE,
               start_index |-> 0]

Init ==
    /\ table = <<>>
    /\ s0 = 0
    /\ it = NoIterator
    /\ pc = "new"
    /\ instructions = <<>>
    /\ len = 0
    /\ index = 0
    /\ ret = Pending
    /\ yielded = <<>>
    /\ tried = <<>>
    /\ nones = 0
    /\ gset = {}
    /\ gvec = <<>>
    /\ gsorted = FALSE
    /\ unsorted = <<>>
    /\ qgadget = [file_offset |-> 0, instructions |-> <<>>]
    /\ qlog = <<>>
    /\ shared = <<>>
    /\ twins = <<>>
    /\ overflow_checks = FALSE
    /\ fgadget = [file_offset |-> 0, instructions |-> <<>>]
    /\ fmode = "instruction"
    /\ fpc = "idle"
    /\ fnext = 1
    /\ output = <<>>

\* GadgetIterator::new: stores its six arguments, checks nothing.
New(section_start, tail_instruction, predecessors, max_instructions, noisy, start_index) ==
    /\ pc = "new"
    /\ it' = [section_start |-> section_start,
              tail_instruction |-> tail_instruction,
              predecessors |-> predecessors,
              max_instructions |-> max_instructions,
              noisy |-> noisy,
              start_index |-> start_index]
    /\ table' = predecessors
    /\ s0' = start_index
    /\ pc' = "idle"
    /\ UNCHANGED <<instructions, len, index, ret, yielded, tried, nones, gvars>>

\* Mutant of Advance: the view loses two entries for one start index.
AdvanceTwoEntries(i) ==
    [i EXCEPT !.predecessors = SubSeq(i.predecessors, 3, Len(i.predecessors)),
              !.start_index = i.start_index + 1]

\* Mutant of Advance: the view is narrowed, start_index is not incremented.
AdvanceNoCount(i) ==
    [i EXCEPT !.predecessors = SubSeq(i.predecessors, 2, Len(i.predecessors))]

\* The slice &self.predecessors[1..] and the increment of start_index.
Advance(i) ==
    [i EXCEPT !.predecessors = SubSeq(i.predecessors, 2, Len(i.predecessors)),
              !.start_index = i.start_index + 1]

\* Mutant of AtTail: a cursor that has not moved counts as on the tail.
AtTailOrUnmoved(i, l) == i = l \/ i = 0

\* Mutant of AtTail: a cursor past the tail counts as on it.
AtTailOrPast(i, l) == i >= l

\* Line 148: the cursor stands exactly on the tail.
AtTail(i, l) == i = l

\* Line 140: index += instruction.len().
NextIndex(i, instruction) == i + InsLen(instruction)

\* Lines 151-154: the gadget built for a start index and a candidate list.
MakeGadget(section_start, current_start_index, instrs) ==
    [file_offset |-> section_start + current_start_index, instructions |-> instrs]

\* next(), line 125: the caller calls next(); let mut instructions = Vec::new().
Call ==
    /\ pc = "idle"
    /\ nones < MaxNones
    /\ instructions' = <<>>
    /\ ret' = Pending
    /\ pc' = "outer"
    /\ UNCHANGED <<table, s0, it, len, index, yielded, tried, nones, gvars>>

\* next(), lines 127-130: the outer loop is entered for the current front.
OuterEnter ==
    /\ pc = "outer"
    /\ it.predecessors # <<>>
    /\ instructions' = <<>>
    /\ len' = Len(it.predecessors)
    /\ index' = 0
    /\ tried' = Append(tried, it.start_index)
    /\ pc' = "inner"
    /\ UNCHANGED <<table, s0, it, ret, yielded, nones, gvars>>

\* Mutant of ReturnNone: returning None rewinds the enumerator to its window.
ReturnNoneRestarts ==
    /\ pc = "outer"
    /\ it.predecessors = <<>>
    /\ ret' = None
    /\ nones' = nones + 1
    /\ it' = [it EXCEPT !.predecessors = table, !.start_index = s0]
    /\ pc' = "idle"
    /\ UNCHANGED <<table, s0, instructions, len, index, yielded, tried, gvars>>

\* next(), lines 127 and 158: the view is empty, next() returns None.
ReturnNone ==
    /\ pc = "outer"
    /\ it.predecessors = <<>>
    /\ ret' = None
    /\ nones' = nones + 1
    /\ pc' = "idle"
    /\ UNCHANGED <<table, s0, it, instructions, len, index, yielded, tried, gvars>>

\* instructions.len() < self.max_instructions - 1 in usize arithmetic, when
\* the subtraction does not panic: 0 - 1 wraps to usize::MAX, which no Vec
\* length reaches.
BelowCap(n, max_instructions) ==
    IF max_instructions = 0 THEN TRUE ELSE n < max_instructions - 1

\* The condition of the inner loop, line 131 (&& evaluates the cap only
\* when index < len).
InnerCond == index < len /\ BelowCap(Len(instructions), it.max_instructions)

\* Line 131 in a build with overflow checks (debug profile): 0 - 1 panics
\* with "attempt to subtract with overflow".
InnerPanic ==
    /\ pc = "inner"
    /\ index < len
    /\ it.max_instructions = 0
    /\ pc' = "panicked"
    /\ UNCHANGED <<table, s0, it, instructions, len, index, ret, yielded, tried, nones, gvars>>

\* Mutant of InnerBad: the front moves past the illegal instruction instead
\* of by one entry.
InnerBadSkips ==
    /\ pc = "inner"
    /\ InnerCond
    /\ ~is_rop_gadget_head(it.predecessors[index + 1], it.noisy)
    /\ it' = [it EXCEPT !.predecessors = SubSeq(it.predecessors, index + 2,
                                                Len(it.predecessors)),
                        !.start_index = it.start_index + index + 1]
    /\ pc' = "outer"
    /\ UNCHANGED <<table, s0, instructions, len, index, ret, yielded, tried, nones, gvars>>

\* Lines 132-137: the fetched instruction is no legal head; the front moves
\* on by one entry and the outer loop continues.
InnerBad ==
    /\ pc = "inner"
    /\ InnerCond
    /\ ~is_rop_gadget_head(it.predecessors[index + 1], it.noisy)
    /\ it' = Advance(it)
    /\ pc' = "outer"
    /\ UNCHANGED <<table, s0, instructions, len, index, ret, yielded, tried, nones, gvars>>

\* Lines 132-133, 139-140: the fetched instruction is a legal head; it is
\* pushed and the cursor moves by its length.  The push that can never be
\* the last one (wrapped cap, length 0) is InnerExhaust.
InnerPush ==
    /\ pc = "inner"
    /\ InnerCond
    /\ LET instruction == it.predecessors[index + 1] IN
        /\ is_rop_gadget_head(instruction, it.noisy)
        /\ ~(it.max_instructions = 0 /\ InsLen(instruction) = 0)
        /\ instructions' = Append(instructions, instruction)
        /\ index' = NextIndex(index, instruction)
    /\ UNCHANGED <<table, s0, it, pc, len, ret, yielded, tried, nones, gvars>>

\* Lines 131-141 with the cap wrapped to usize::MAX and a legal head of
\* length 0 under the cursor: every turn pushes and leaves index where it
\* is, so the loop runs until the Vec cannot grow and the process aborts.
InnerExhaust ==
    /\ pc = "inner"
    /\ InnerCond
    /\ LET instruction == it.predecessors[index + 1] IN
        /\ is_rop_gadget_head(instruction, it.noisy)
        /\ it.max_instructions = 0
        /\ InsLen(instruction) = 0
    /\ pc' = "aborted"
    /\ UNCHANGED <<table, s0, it, instructions, len, index, ret, yielded, tried, nones, gvars>>

\* Lines 143-155: the inner loop is left; the front moves on by one entry,
\* and when the cursor stands exactly on the tail the gadget is returned.
InnerExit ==
    /\ pc = "inner"
    /\ ~InnerCond
    /\ LET current_start_index == it.start_index IN
        /\ it' = Advance(it)
        /\ IF AtTail(index, len)
           THEN LET gadget == MakeGadget(it.section_start, current_start_index,
                                         Append(instructions, it.tail_instruction))
                IN /\ instructions' = gadget.instructions
                   /\ ret' = Some(gadget)
                   /\ yielded' = Append(yielded, [gadget |-> gadget, len |-> len,
                                                  start |-> current_start_index])
                   /\ pc' = "idle"
           ELSE /\ pc' = "outer"
                /\ UNCHANGED <<instructions, ret, yielded>>
    /\ UNCHANGED <<table, s0, len, index, tried, nones, gvars>>

\* ------------------------------------------------------------------------
\* Gadget: equality, hash and ordering
\* ------------------------------------------------------------------------

\* Instruction == Instruction of iced_x86: the instruction is compared, its
\* encoded length and address are not.
InstructionEq(a, b) == a.code = b.code

\* What Instruction::hash feeds the hasher: the fields == compares.
InstructionHash(a) == a.code

\* Vec<Instruction>::eq: same length and equal element by element.
VecEq(x, y) ==
    /\ Len(x) = Len(y)
    /\ \A i \in DOMAIN x : InstructionEq(x[i], y[i])

\* Vec<Instruction>::hash: the length, then every element.
VecHash(x) == <<Len(x)>> \o [i \in DOMAIN x |-> InstructionHash(x[i])]

\* Mutant of GadgetEq: the derived equality, which compares file_offset too.
GadgetEqDerived(a, b) ==
    a.file_offset = b.file_offset /\ VecEq(a.instructions, b.instructions)

\* impl PartialEq for Gadget, line 17.
GadgetEq(a, b) == VecEq(a.instructions, b.instructions)

\* impl Hash for Gadget, line 27: what is fed to the hasher.
GadgetHash(g) == VecHash(g.instructions)

\* usize::cmp.
UsizeCmp(x, y) == IF x < y THEN "Less" ELSE IF x = y THEN "Equal" ELSE "Greater"

\* Vec<Instruction> compared by length: stands for an ordering on the body.
BodyCmp(x, y) == UsizeCmp(Len(x), Len(y))

\* Mutant of GadgetCmp: the body is compared first, file_offset breaks ties.
GadgetCmpBodyFirst(a, b) ==
    IF BodyCmp(a.instructions, b.instructions) # "Equal"
    THEN BodyCmp(a.instructions, b.instructions)
    ELSE UsizeCmp(a.file_offset, b.file_offset)

\* impl Ord for Gadget, line 38.
GadgetCmp(a, b) == UsizeCmp(a.file_offset, b.file_offset)

\* Option<Ordering>::Some.
SomeOrdering(o) == [kind |-> "some", ordering |-> o]

\* impl PartialOrd for Gadget, line 33.
GadgetPartialCmp(a, b) == SomeOrdering(UsizeCmp(a.file_offset, b.file_offset))

\* PartialOrd::lt, the provided method: partial_cmp gives Some(Less).
GadgetLt(a, b) == GadgetPartialCmp(a, b) = SomeOrdering("Less")

\* HashSet<Gadget>::insert: g is stored unless an entry with the same hash
\* that is == g is there already.
HashSetInsert(set, g) ==
    IF \E e \in set : GadgetHash(e) = GadgetHash(g) /\ GadgetEq(e, g)
    THEN set
    ELSE set \cup {g}

\* a sorts before b: with by_cmp as sort_by(Ord::cmp) decides it, otherwise
\* as sort() does, which asks PartialOrd::lt.
SortsBefore(a, b, by_cmp) ==
    IF by_cmp THEN GadgetCmp(a, b) = "Less" ELSE GadgetLt(a, b)

\* One step of a stable sort: g is put behind the last element of the
\* sorted sequence sq that does not sort after it.
RECURSIVE InsertSorted(_, _, _)
InsertSorted(sq, g, by_cmp) ==
    IF sq = <<>> THEN <<g>>
    ELSE IF SortsBefore(g, sq[Len(sq)], by_cmp)
         THEN Append(InsertSorted(SubSeq(sq, 1, Len(sq) - 1), g, by_cmp), sq[Len(sq)])
         ELSE Append(sq, g)

\* slice::sort and slice::sort_by(Ord::cmp): a stable sort.
RECURSIVE SortVec(_, _)
SortVec(sq, by_cmp) ==
    IF sq = <<>> THEN <<>>
    ELSE InsertSorted(SortVec(SubSeq(sq, 1, Len(sq) - 1), by_cmp), sq[Len(sq)], by_cmp)

\* The gadgets the caller holds: bodies with and without heads, heads that
\* differ in their length only, and the empty body; at three addresses.
GadgetBodies ==
    { <<>>,
      <<[code |-> "ret", len |-> 1]>>,
      <<[code |-> "pop", len |-> 1], [code |-> "ret", len |-> 1]>>,
      <<[code |-> "pop", len |-> 2], [code |-> "ret", len |-> 1]>>,
      <<[code |-> "in", len |-> 1], [code |-> "ret", len |-> 1]>>,
      <<[code |-> "pop", len |-> 1], [code |-> "in", len |-> 1],
        [code |-> "ret", len |-> 1]>> }
GadgetOffsets == {0, 1, 64}
Gadgets == [file_offset : GadgetOffsets, instructions : GadgetBodies]

\* The caller puts a gadget into its set and appends it to its list.
Collect(g) ==
    /\ ~gsorted
    /\ Len(gvec) < MaxVec
    /\ gset' = HashSetInsert(gset, g)
    /\ gvec' = Append(gvec, g)
    /\ UNCHANGED <<gsorted, unsorted, qgadget, qlog, tvars, fvars>>
    /\ UNCHANGED <<table, s0, it, pc, instructions, len, index, ret, yielded, tried, nones>>

\* The caller sorts its list with sort() or with sort_by(Ord::cmp).
Sort(by_cmp) ==
    /\ ~gsorted
    /\ unsorted' = gvec
    /\ gvec' = SortVec(gvec, by_cmp)
    /\ gsorted' = TRUE
    /\ UNCHANGED <<gset, qgadget, qlog, tvars, fvars>>
    /\ UNCHANGED <<table, s0, it, pc, instructions, len, index, ret, yielded, tried, nones>>

\* One step of the caller's collection of gadgets.
CollectAny == \E g \in Gadgets : Collect(g)
SortAny == \E by_cmp \in BOOLEAN : Sort(by_cmp)

NextGadget ==
    \/ CollectAny
    \/ SortAny

\* The Gadget operations on their own, applied to gadgets drawn from Gadgets.
SpecGadget == Init /\ [][NextGadget]_vars

\* ------------------------------------------------------------------------
\* Gadget: pivot classification
\* ------------------------------------------------------------------------

\* rules::is_stack_pivot_head: the instruction writes the stack pointer.
is_stack_pivot_head(i) == i.code \in {"xchg", "leave"}

\* rules::is_stack_pivot_tail: a return that also pops extra bytes.
is_stack_pivot_tail(i) == i.code = "retn"

\* rules::is_base_pivot_head: the instruction writes the base pointer.
is_base_pivot_head(i) == i.code \in {"popbp", "leave"}

\* The slice pattern [h @ .., _]: everything before the last element.
Heads(sq) == SubSeq(sq, 1, Len(sq) - 1)

\* Iterator::any over a slice with the stack-pivot head predicate.
RECURSIVE AnyStackPivotHead(_)
AnyStackPivotHead(h) ==
    IF h = <<>> THEN FALSE
    ELSE is_stack_pivot_head(h[1]) \/ AnyStackPivotHead(Tail(h))

\* Iterator::any over a slice with the base-pivot head predicate.
RECURSIVE AnyBasePivotHead(_)
AnyBasePivotHead(h) ==
    IF h = <<>> THEN FALSE
    ELSE is_base_pivot_head(h[1]) \/ AnyBasePivotHead(Tail(h))

\* Mutant of is_stack_pivot: the tail is tested too when heads precede it.
is_stack_pivot_with_tail(g) ==
    IF g.instructions = <<>> THEN FALSE
    ELSE IF Len(g.instructions) = 1 THEN is_stack_pivot_tail(g.instructions[1])
    ELSE \/ AnyStackPivotHead(Heads(g.instructions))
         \/ is_stack_pivot_tail(g.instructions[Len(g.instructions)])

\* Gadget::is_stack_pivot, lines 46-52: the match on the slice.
is_stack_pivot(g) ==
    IF g.instructions = <<>> THEN FALSE
    ELSE IF Len(g.instructions) = 1 THEN is_stack_pivot_tail(g.instructions[1])
    ELSE AnyStackPivotHead(Heads(g.instructions))

\* Mutant of is_base_pivot: every instruction is tested, the last included.
is_base_pivot_all(g) == AnyBasePivotHead(g.instructions)

\* Gadget::is_base_pivot, lines 54-60: the match on the slice.
is_base_pivot(g) ==
    IF g.instructions = <<>> THEN FALSE
    ELSE IF Len(g.instructions) = 1 THEN FALSE
    ELSE AnyBasePivotHead(Heads(g.instructions))

\* Instructions of the gadgets the pivot queries are asked of: a head that
\* pivots nothing, one that pivots the stack, one that pivots the base, one
\* that pivots both, a plain return and a return that pivots.
PivotInstructions == [code : {"pop", "xchg", "popbp", "leave", "ret", "retn"}, len : {1}]

\* The gadgets the pivot queries are asked of: every body up to MaxBody.
PivotGadgets == [file_offset : {0}, instructions : SeqUpTo(PivotInstructions, MaxBody)]

\* The caller takes hold of a gadget.
Hold(g) ==
    /\ qgadget' = g
    /\ qlog' = <<>>
    /\ UNCHANGED <<gset, gvec, gsorted, unsorted, tvars, fvars>>
    /\ UNCHANGED <<table, s0, it, pc, instructions, len, index, ret, yielded, tried, nones>>

\* The caller calls is_stack_pivot(&self) on the gadget it holds.
QueryStack ==
    /\ Len(qlog) < MaxQueries
    /\ qlog' = Append(qlog, [query |-> "stack", answer |-> is_stack_pivot(qgadget)])
    /\ UNCHANGED <<gset, gvec, gsorted, unsorted, qgadget, tvars, fvars>>
    /\ UNCHANGED <<table, s0, it, pc, instructions, len, index, ret, yielded, tried, nones>>

\* The caller calls is_base_pivot(&self) on the gadget it holds.
QueryBase ==
    /\ Len(qlog) < MaxQueries
    /\ qlog' = Append(qlog, [query |-> "base", answer |-> is_base_pivot(qgadget)])
    /\ UNCHANGED <<gset, gvec, gsorted, unsorted, qgadget, tvars, fvars>>
    /\ UNCHANGED <<table, s0, it, pc, instructions, len, index, ret, yielded, tried, nones>>

HoldAny == \E g \in PivotGadgets : Hold(g)

NextPivot ==
    \/ HoldAny
    \/ QueryStack
    \/ QueryBase

\* The pivot queries on their own, asked of gadgets drawn from PivotGadgets.
SpecPivot == Init /\ [][NextPivot]_vars

\* ------------------------------------------------------------------------
\* Two enumerators over one table
\* ------------------------------------------------------------------------

\* A GadgetIterator whose view is kept as what the slice is: a window
\* lo..hi of the table it borrows.  lo0 and start0 are lo and start_index
\* as new() got them.
TwinNew(section_start, tail_instruction, lo, hi, max_instructions, noisy, start_index) ==
    [section_start |-> section_start, tail_instruction |-> tail_instruction,
     lo |-> lo, hi |-> hi, max_instructions |-> max_instructions, noisy |-> noisy,
     start_index |-> start_index, lo0 |-> lo, start0 |-> start_index,
     pc |-> "idle", instructions |-> <<>>, len |-> 0, index |-> 0,
     ret |-> Pending, yielded |-> <<>>]

\* Lines 135-136 and 145-146 on a window: the view loses its first entry.
TwinAdvance(e) == [e EXCEPT !.lo = e.lo + 1, !.start_index = e.start_index + 1]

\* The enumerator is inside next(), or its caller will call next() again:
\* a caller that drains stops at the first None.
TwinEnabled(e) == e.pc \in {"outer", "inner"} \/ (e.pc = "idle" /\ e.ret # None)

\* One step of next(), lines 124-159, of an enumerator over the table tbl,
\* in a build with overflow checks or without.
TwinNext(e, tbl, checks) ==
    CASE e.pc = "idle" ->
           [e EXCEPT !.pc = "outer", !.instructions = <<>>, !.ret = Pending]
      [] e.pc = "outer" ->
           IF e.hi - e.lo = 0
           THEN [e EXCEPT !.ret = None, !.pc = "idle"]
           ELSE [e EXCEPT !.instructions = <<>>, !.len = e.hi - e.lo, !.index = 0,
                          !.pc = "inner"]
      [] e.pc = "inner" ->
           IF e.index < e.len /\ e.max_instructions = 0 /\ checks
           THEN [e EXCEPT !.pc = "panicked"]
           ELSE IF e.index < e.len /\ BelowCap(Len(e.instructions), e.max_instructions)
           THEN LET instruction == tbl[e.lo + e.index + 1] IN
                IF ~is_rop_gadget_head(instruction, e.noisy)
                THEN [TwinAdvance(e) EXCEPT !.pc = "outer"]
                ELSE IF e.max_instructions = 0 /\ InsLen(instruction) = 0
                THEN [e EXCEPT !.pc = "aborted"]
                ELSE [e EXCEPT !.instructions = Append(e.instructions, instruction),
                               !.index = NextIndex(e.index, instruction)]
           ELSE IF AtTail(e.index, e.len)
                THEN LET gadget == MakeGadget(e.section_start, e.start_index,
                                              Append(e.instructions, e.tail_instruction))
                     IN [TwinAdvance(e) EXCEPT !.instructions = gadget.instructions,
                                               !.ret = Some(gadget),
                                               !.yielded = Append(e.yielded, gadget),
                                               !.pc = "idle"]
                ELSE [TwinAdvance(e) EXCEPT !.pc = "outer"]

\* Tables two enumerators are built over.
TwinTables == SeqUpTo(Instruction, MaxTwinWin)

\* Caps of the first enumerator.
TwinCaps == {0, 2}

\* Builds the two enumerators run in: overflow checks change nothing but
\* 0 - 1, so both builds are tried for a cap of 0 only.
TwinBuilds(max_instructions) == IF max_instructions = 0 THEN BOOLEAN ELSE {FALSE}

\* The second enumerator for a first one e over a table of n entries: built
\* with the same arguments, or with another tail, cap, mode and start over
\* a window one entry shorter.
TwinSecond(e, n) ==
    { e,
      TwinNew(64, [code |-> "ret", len |-> 3], IF n > 0 THEN 1 ELSE 0, n, 3,
              ~e.noisy, 1) }

\* The caller builds two enumerators over one table.
TwinConstruct ==
    /\ twins = <<>>
    /\ \E predecessors \in TwinTables, max_instructions \in TwinCaps,
          noisy \in BOOLEAN :
        LET first == TwinNew(0, [code |-> "ret", len |-> 1], 0, Len(predecessors),
                             max_instructions, noisy, 0)
        IN \E second \in TwinSecond(first, Len(predecessors)),
              checks \in TwinBuilds(max_instructions) :
            /\ shared' = predecessors
            /\ twins' = <<first, second>>
            /\ overflow_checks' = checks
    /\ UNCHANGED <<gset, gvec, gsorted, unsorted, qgadget, qlog, fvars>>
    /\ UNCHANGED <<table, s0, it, pc, instructions, len, index, ret, yielded, tried, nones>>

\* Mutant of TwinStep: the front of the view is kept with the table, so a
\* step that narrows one enumerator's view narrows the other's as well.
TwinStepSharedFront(i) ==
    /\ twins # <<>>
    /\ TwinEnabled(twins[i])
    /\ LET e == TwinNext(twins[i], shared, overflow_checks) IN
        twins' = [j \in DOMAIN twins |->
                    IF j = i THEN e
                    ELSE IF twins[j].lo < e.lo /\ e.lo <= twins[j].hi
                         THEN [twins[j] EXCEPT !.lo = e.lo]
                         ELSE twins[j]]
    /\ UNCHANGED <<shared, overflow_checks>>
    /\ UNCHANGED <<gset, gvec, gsorted, unsorted, qgadget, qlog, fvars>>
    /\ UNCHANGED <<table, s0, it, pc, instructions, len, index, ret, yielded, tried, nones>>

\* Enumerator i takes one step of its next(); the other one stands still.
TwinStep(i) ==
    /\ twins # <<>>
    /\ TwinEnabled(twins[i])
    /\ twins' = [twins EXCEPT ![i] = TwinNext(twins[i], shared, overflow_checks)]
    /\ UNCHANGED <<shared, overflow_checks>>
    /\ UNCHANGED <<gset, gvec, gsorted, unsorted, qgadget, qlog, fvars>>
    /\ UNCHANGED <<table, s0, it, pc, instructions, len, index, ret, yielded, tried, nones>>

TwinStepAny == \E i \in {1, 2} : TwinStep(i)

NextTwin ==
    \/ TwinConstruct
    \/ TwinStepAny

\* Two enumerators over one table, their steps interleaved in any order.
SpecTwin == Init /\ [][NextTwin]_vars

\* ------------------------------------------------------------------------
\* Rendering: Gadget::format_instruction and Gadget::format_full
\* ------------------------------------------------------------------------

\* Most instructions of a gadget that is rendered.
MaxFmt == 3

\* FormatterOutput::write(text, kind): one token of the sink. A text is the
\* sequence of its characters.
Token(text, kind) == [text |-> text, kind |-> kind]

\* The two tokens format_instruction writes itself.
Semicolon == Token(<<";">>, "Text")
Blank == Token(<<" ">>, "Text")

\* IntelFormatter::format(i, output): the tokens of one instruction. The
\* formatter writes a blank of kind Text between a mnemonic and its operands
\* and after an operand separator.
FormatterFormat(i) ==
    CASE i.code = "pop" -> << Token(<<"p", "o", "p">>, "Mnemonic"), Token(<<" ">>, "Text"),
                              Token(<<"r", "a", "x">>, "Register") >>
      [] i.code = "in"  -> << Token(<<"i", "n">>, "Mnemonic"), Token(<<" ">>, "Text"),
                              Token(<<"a", "l">>, "Register"), Token(<<",">>, "Punctuation"),
                              Token(<<" ">>, "Text"), Token(<<"d", "x">>, "Register") >>
      [] OTHER          -> << Token(<<"r", "e", "t">>, "Mnemonic") >>

\* A usize of a 64-bit target: its 16 hexadecimal digits, the least
\* significant first (TLC's integers end at 2^31 - 1).
UsizeDigits == 16
Usize == [1..UsizeDigits -> 0..15]

\* The usize written in hexadecimal, most significant digit first.
UsizeFromHex(msb) ==
    [p \in 1..UsizeDigits |-> IF p <= Len(msb) THEN msb[Len(msb) + 1 - p] ELSE 0]

UsizeIsZero(x) == \A p \in 1..UsizeDigits : x[p] = 0

\* x >> 4
UsizeShr4(x) == [p \in 1..UsizeDigits |-> IF p < UsizeDigits THEN x[p + 1] ELSE 0]

\* The lowercase digit of a value below 16.
HexDigit(d) ==
    <<"0", "1", "2", "3", "4", "5", "6", "7", "8", "9", "a", "b", "c", "d", "e", "f">>[d + 1]

\* impl LowerHex for usize: digits are taken from the low end until the
\* value is zero, at least one digit.
RECURSIVE LowerHex(_)
LowerHex(x) ==
    IF UsizeIsZero(UsizeShr4(x))
    THEN << HexDigit(x[1]) >>
    ELSE Append(LowerHex(UsizeShr4(x)), HexDigit(x[1]))

\* n zeroes.
Zeroes(n) == [p \in 1..n |-> "0"]

\* Formatter::pad_integral with the flags # and 0: the prefix, then zeroes
\* up to the width, then the digits; the width is a minimum.
PadIntegral(prefix, digits, width) ==
    IF Len(prefix) + Len(digits) >= width
    THEN prefix \o digits
    ELSE prefix \o Zeroes(width - Len(prefix) - Len(digits)) \o digits

\* format!("{:#010x}: ", file_offset) with the width applied to the digits
\* alone.
FormatAddressDigitsWidth(file_offset) ==
    <<"0", "x">> \o PadIntegral(<<>>, LowerHex(file_offset), 10) \o <<":", " ">>

\* format!("{:#010x}: ", file_offset)
FormatAddress(file_offset) ==
    PadIntegral(<<"0", "x">>, LowerHex(file_offset), 10) \o <<":", " ">>

\* Instructions of the gadgets that are rendered: one, three and six tokens.
FormatInstructions == [code : {"pop", "in", "ret"}, len : {1}]

\* File offsets of the gadgets that are rendered: 0, 0x40, 0x1000,
\* 0xffffffff, 0x100000000 and usize::MAX.
FormatOffsets ==
    { UsizeFromHex(<<0>>), UsizeFromHex(<<4, 0>>), UsizeFromHex(<<1, 0, 0, 0>>),
      UsizeFromHex(<<15, 15, 15, 15, 15, 15, 15, 15>>),
      UsizeFromHex(<<1, 0, 0, 0, 0, 0, 0, 0, 0>>),
      UsizeFromHex(<<15, 15, 15, 15, 15, 15, 15, 15, 15, 15, 15, 15, 15, 15, 15, 15>>) }

\* The gadgets that are rendered.
FormatGadgets ==
    [file_offset : FormatOffsets, instructions : SeqUpTo(FormatInstructions, MaxFmt)]

\* The caller calls format_instruction or format_full on a gadget with an
\* empty sink.
Render(g, full) ==
    /\ fpc = "idle"
    /\ fgadget' = g
    /\ fmode' = IF full THEN "full" ELSE "instruction"
    /\ fpc' = IF full THEN "format_full" ELSE "format_instruction"
    /\ fnext' = 1
    /\ output' = <<>>
    /\ UNCHANGED <<gset, gvec, gsorted, unsorted, qgadget, qlog, tvars>>
    /\ UNCHANGED <<table, s0, it, pc, instructions, len, index, ret, yielded, tried, nones>>

\* format_full: writes the address as one Function token and calls
\* format_instruction.
FormatFull ==
    /\ fpc = "format_full"
    /\ output' = Append(output, Token(FormatAddress(fgadget.file_offset), "Function"))
    /\ fpc' = "format_instruction"
    /\ UNCHANGED <<fgadget, fmode, fnext>>
    /\ UNCHANGED <<gset, gvec, gsorted, unsorted, qgadget, qlog, tvars>>
    /\ UNCHANGED <<table, s0, it, pc, instructions, len, index, ret, yielded, tried, nones>>

\* One iteration of the loop of format_instruction that writes the blank
\* after every instruction.
FormatInstructionLoopNoPeek ==
    /\ fpc = "format_instruction"
    /\ fnext <= Len(fgadget.instructions)
    /\ output' = output \o FormatterFormat(fgadget.instructions[fnext])
                        \o << Semicolon, Blank >>
    /\ fnext' = fnext + 1
    /\ UNCHANGED <<fgadget, fmode, fpc>>
    /\ UNCHANGED <<gset, gvec, gsorted, unsorted, qgadget, qlog, tvars>>
    /\ UNCHANGED <<table, s0, it, pc, instructions, len, index, ret, yielded, tried, nones>>

\* One iteration of the loop of format_instruction: the instruction, a
\* semicolon, and a blank if the iterator has another instruction.
FormatInstructionLoop ==
    /\ fpc = "format_instruction"
    /\ fnext <= Len(fgadget.instructions)
    /\ output' = output \o FormatterFormat(fgadget.instructions[fnext])
                        \o << Semicolon >>
                        \o (IF fnext + 1 <= Len(fgadget.instructions) THEN << Blank >> ELSE <<>>)
    /\ fnext' = fnext + 1
    /\ UNCHANGED <<fgadget, fmode, fpc>>
    /\ UNCHANGED <<gset, gvec, gsorted, unsorted, qgadget, qlog, tvars>>
    /\ UNCHANGED <<table, s0, it, pc, instructions, len, index, ret, yielded, tried, nones>>

\* format_instruction returns when the iterator is exhausted.
FormatInstructionReturn ==
    /\ fpc = "format_instruction"
    /\ fnext > Len(fgadget.instructions)
    /\ fpc' = "done"
    /\ UNCHANGED <<fgadget, fmode, fnext, output>>
    /\ UNCHANGED <<gset, gvec, gsorted, unsorted, qgadget, qlog, tvars>>
    /\ UNCHANGED <<table, s0, it, pc, instructions, len, index, ret, yielded, tried, nones>>

RenderAny == \E g \in FormatGadgets, full \in BOOLEAN : Render(g, full)

NextFormat ==
    \/ RenderAny
    \/ FormatFull
    \/ FormatInstructionLoop
    \/ FormatInstructionReturn

\* The two renderings on their own, of gadgets drawn from FormatGadgets.
SpecFormat == Init /\ [][NextFormat]_vars

\* ------------------------------------------------------------------------
\* The enumerator as a whole
\* ------------------------------------------------------------------------

\* The caller builds the enumerator: any window, cap, mode and start index.
Construct ==
    /\ pc = "new"
    /\ \E start \in StartArgs, tail_instruction \in TailInstructions,
          predecessors \in Tables, max_instructions \in 0..MaxCap,
          noisy \in BOOLEAN :
            New(start[1], tail_instruction, predecessors, max_instructions,
                noisy, start[2])

Next ==
    \/ Construct
    \/ Call
    \/ OuterEnter
    \/ ReturnNone
    \/ InnerPanic
    \/ InnerBad
    \/ InnerPush
    \/ InnerExhaust
    \/ InnerExit

Spec == Init /\ [][Next]_vars

\* ------------------------------------------------------------------------
\* Vocabulary of the properties
\* ------------------------------------------------------------------------

\* Number of entries of the window handed to new().
WindowLen == Len(table)

\* next() has returned None.
Drained == pc = "idle" /\ ret = None

\* All but the last element, and the last element, of a non-empty sequence.
Front(sq) == SubSeq(sq, 1, Len(sq) - 1)
Last(sq) == sq[Len(sq)]

\* Sum of the byte lengths of a sequence of instructions.
RECURSIVE SumLens(_)
SumLens(sq) == IF sq = <<>> THEN 0 ELSE InsLen(sq[1]) + SumLens(Tail(sq))

\* Positions in the log of the gadgets yielded for window offset k.
YieldsAt(k) ==
    {i \in DOMAIN yielded : yielded[i].gadget.file_offset = it.section_start + s0 + k}

\* c is a chain k = c[0] < c[1] < ... < c[m] = n of legal heads, each
\* entry one instruction length after the one before.
IsChain(c, k, m) ==
    /\ c[0] = k
    /\ c[m] = WindowLen
    /\ \A j \in 0..(m - 1) :
        /\ c[j] < WindowLen
        /\ c[j] < c[j + 1]
        /\ c[j + 1] = c[j] + InsLen(table[c[j] + 1])
        /\ is_rop_gadget_head(table[c[j] + 1], it.noisy)

\* The chains from offset k with 1 <= m <= max_instructions - 1, each as the
\* pair of its length m and its offsets.
ChainsFrom(k) ==
    {mc \in UNION {{<<m, c>> : c \in [0..m -> 0..WindowLen]} :
                     m \in 1..(it.max_instructions - 1)} :
        IsChain(mc[2], k, mc[1])}

\* The instructions of the gadget of a chain: its heads, then the tail.
ChainInstructions(mc) ==
    [j \in 1..mc[1] |-> table[mc[2][j - 1] + 1]] \o <<it.tail_instruction>>


\* Start offsets whose turn of the outer loop is over.
Completed == it.start_index - s0

\* What one turn of the outer loop does for a view on its own: the inner
\* walk from cursor idx with candidate list acc.  "hit" with the gadget's
\* instructions, "bad" for an illegal head, "miss" for a cursor that is not
\* on the tail, "stuck" for a walk that never ends.
RECURSIVE WalkAlone(_, _, _, _, _, _)
WalkAlone(view, idx, acc, tail, max, noisy) ==
    IF idx < Len(view) /\ BelowCap(Len(acc), max)
    THEN LET instruction == view[idx + 1] IN
         IF ~is_rop_gadget_head(instruction, noisy) THEN [kind |-> "bad", at |-> idx]
         ELSE IF max = 0 /\ InsLen(instruction) = 0 THEN [kind |-> "stuck"]
         ELSE WalkAlone(view, idx + InsLen(instruction), Append(acc, instruction),
                        tail, max, noisy)
    ELSE IF idx = Len(view) THEN [kind |-> "hit", instructions |-> Append(acc, tail)]
    ELSE [kind |-> "miss"]

\* The outcome of window offset k tried on its own.
Alone(k) ==
    WalkAlone(SubSeq(table, k + 1, WindowLen), 0, <<>>, it.tail_instruction,
              it.max_instructions, it.noisy)

\* The inner loop has fetched an instruction that is no legal head.
FetchedBad ==
    /\ pc = "inner"
    /\ InnerCond
    /\ ~is_rop_gadget_head(it.predecessors[index + 1], it.noisy)

\* ------------------------------------------------------------------------
\* Properties
\* ------------------------------------------------------------------------

\* C1: once the enumerator is drained, a gadget was yielded for window offset
\* k if and only if a chain of at most max_instructions - 1 legal heads leads
\* from k exactly to the end of the window, and the gadget's instructions are
\* the heads of that chain followed by the tail.
C1_EnumerationExact ==
    Drained =>
        \A k \in 0..(WindowLen - 1) :
            /\ (YieldsAt(k) # {}) <=> (ChainsFrom(k) # {})
            /\ \A i \in YieldsAt(k) :
                \E mc \in ChainsFrom(k) :
                    yielded[i].gadget.instructions = ChainInstructions(mc)

\* C2: every yielded gadget ends with the tail instruction and has between 1
\* and max_instructions instructions.
C2_TailLastAndCapped ==
    \A i \in DOMAIN yielded :
        LET g == yielded[i].gadget IN
        /\ Len(g.instructions) >= 1
        /\ Last(g.instructions) = it.tail_instruction
        /\ Len(g.instructions) <= it.max_instructions

\* C3: the byte lengths of the heads of every yielded gadget add up to
\* exactly the number of window entries between its start offset and the
\* tail, which is the length of the view when that offset was tried.
C3_ExactBoundary ==
    \A i \in DOMAIN yielded :
        LET y == yielded[i] IN
        /\ SumLens(Front(y.gadget.instructions)) = y.len
        /\ y.len = WindowLen - (y.gadget.file_offset - it.section_start - s0)

\* C3 witness: a gadget of two heads, one of them two bytes long, was yielded.
C3_Witness ==
    \E i \in DOMAIN yielded :
        LET h == Front(yielded[i].gadget.instructions) IN
        /\ Len(h) = 2
        /\ \E j \in DOMAIN h : InsLen(h[j]) = 2

\* C4: no next() call evaluates max_instructions - 1 with max_instructions
\* = 0: an enumerator built with a cap of 0 never gets as far as the
\* condition of the inner loop.
C4_ZeroCapNeverEvaluated ==
    ~(pc = "inner" /\ index < len /\ it.max_instructions = 0)

\* C5: every turn of the outer loop that ends, with a gadget or without,
\* leaves the view one entry shorter; there are at most as many turns as the
\* window has entries; and the enumerator ends by returning None, never in
\* any other way.
C5_ProgressAndTermination ==
    /\ [][(pc = "inner" /\ pc' \in {"outer", "idle"}) =>
            Len(it'.predecessors) = Len(it.predecessors) - 1]_vars
    /\ [](Len(tried) <= WindowLen)
    /\ [](pc \notin {"panicked", "aborted"})

\* C6: when a fetched instruction fails the head predicate the turn yields
\* nothing, the front moves on by exactly one entry and the outer loop goes
\* on; and every offset whose turn is over has yielded exactly what it
\* yields on its own, whatever happened at the other offsets.
C6_HeadFailureLocal ==
    /\ [][(FetchedBad /\ pc' # "panicked") =>
            /\ pc' = "outer"
            /\ it'.predecessors = Tail(it.predecessors)
            /\ it'.start_index = it.start_index + 1
            /\ yielded' = yielded]_vars
    /\ [](\A k \in 0..(Completed - 1) :
            LET w == Alone(k) IN
            IF w.kind = "hit"
            THEN /\ Cardinality(YieldsAt(k)) = 1
                 /\ \A i \in YieldsAt(k) : yielded[i].gadget.instructions = w.instructions
            ELSE YieldsAt(k) = {})
    /\ [](Drained => Completed = WindowLen)

\* C6 witness: the enumerator is drained; some offset failed on an illegal
\* instruction fetched after a legal one, no gadget was yielded for it, and
\* a gadget was yielded for the offset right after it.
C6_Witness ==
    /\ Drained
    /\ \E k \in 0..(WindowLen - 2) :
        /\ Alone(k).kind = "bad"
        /\ Alone(k).at > 0
        /\ YieldsAt(k) = {}
        /\ YieldsAt(k + 1) # {}

\* C7: the gadgets are yielded in strictly increasing file_offset order, the
\* start offsets are tried one after the other, each once, and a drained
\* enumerator has tried every offset of the window.
C7_IncreasingOnce ==
    /\ \A i, j \in DOMAIN yielded :
        i < j => yielded[i].gadget.file_offset < yielded[j].gadget.file_offset
    /\ \A i \in DOMAIN tried : tried[i] = s0 + i - 1
    /\ Drained => Len(tried) = WindowLen

\* C7 witness: a drained enumerator that yielded two gadgets or more and
\* yielded nothing for some offset.
C7_Witness ==
    /\ Drained
    /\ Len(yielded) >= 2
    /\ Len(yielded) < WindowLen

\* C8: once the view is empty, a step of the enumerator changes neither the
\* view nor start_index nor the gadgets yielded, and a next() call that
\* returns returns None.
C8_ExhaustionPermanent ==
    [][(pc \in {"idle", "outer"} /\ it.predecessors = <<>>) =>
        /\ it' = it
        /\ table' = table
        /\ yielded' = yielded
        /\ pc' \in {"idle", "outer"}
        /\ (pc' = "idle" => ret' = None)]_vars

\* C8 witness: next() has returned None twice after yielding a gadget.
C8_Witness ==
    /\ Drained
    /\ nones >= 2
    /\ yielded # <<>>

\* Two bodies are the same instructions, one by one.
SameInstructions(x, y) == [i \in DOMAIN x |-> x[i].code] = [i \in DOMAIN y |-> y[i].code]

\* The elements of a sequence.
Range(sq) == {sq[i] : i \in DOMAIN sq}

\* How many times g occurs in sq.
Count(sq, g) == Cardinality({i \in DOMAIN sq : sq[i] = g})

\* C9: gadgets with the same instructions are equal and feed the hasher the
\* same, whatever their file_offset, and a set holds one entry for them;
\* gadgets with different instructions are unequal, whatever their
\* file_offset, and a set holds an entry for each.
C9_EqHashByInstructions ==
    /\ \A a, b \in Range(gvec) :
        /\ SameInstructions(a.instructions, b.instructions) =>
              GadgetEq(a, b) /\ GadgetHash(a) = GadgetHash(b)
        /\ ~SameInstructions(a.instructions, b.instructions) => ~GadgetEq(a, b)
    /\ \A a \in Range(gvec) :
        Cardinality({e \in gset : SameInstructions(e.instructions, a.instructions)}) = 1

\* C9 witness: three gadgets collected, two of them with the same
\* instructions at different addresses, two of them with different
\* instructions at the same address; the set holds two.
C9_Witness ==
    /\ Len(gvec) = 3
    /\ Cardinality(gset) = 2
    /\ \E a, b \in Range(gvec) :
        /\ a.file_offset # b.file_offset
        /\ SameInstructions(a.instructions, b.instructions)
    /\ \E a, b \in Range(gvec) :
        /\ a.file_offset = b.file_offset
        /\ ~SameInstructions(a.instructions, b.instructions)

\* C10: cmp compares the file_offsets and nothing else, partial_cmp is Some
\* of cmp, and a sorted list holds the gadgets it held before in ascending
\* file_offset order.
C10_OrderByFileOffset ==
    /\ \A a, b \in Range(gvec) :
        /\ (GadgetCmp(a, b) = "Less") <=> (a.file_offset < b.file_offset)
        /\ (GadgetCmp(a, b) = "Equal") <=> (a.file_offset = b.file_offset)
        /\ (GadgetCmp(a, b) = "Greater") <=> (a.file_offset > b.file_offset)
        /\ GadgetPartialCmp(a, b) = SomeOrdering(GadgetCmp(a, b))
    /\ gsorted =>
        /\ \A i, j \in DOMAIN gvec : i < j => gvec[i].file_offset <= gvec[j].file_offset
        /\ Len(gvec) = Len(unsorted)
        /\ \A g \in Range(unsorted) : Count(gvec, g) = Count(unsorted, g)

\* C10 witness: a list of three gadgets was sorted that was not in
\* ascending order, with a longer body at a lower address than a shorter one.
C10_Witness ==
    /\ gsorted
    /\ Len(gvec) = 3
    /\ gvec # unsorted
    /\ \E a, b \in Range(gvec) :
        /\ a.file_offset < b.file_offset
        /\ Len(a.instructions) > Len(b.instructions)

\* The answers the log holds for one kind of query.
Answers(q) == {qlog[i].answer : i \in {j \in DOMAIN qlog : qlog[j].query = q}}

\* C11: is_stack_pivot is FALSE for an empty body, the tail predicate for a
\* body of one instruction, and for a longer body TRUE exactly when an
\* instruction before the last satisfies the head predicate, the last one
\* never being tested; every call on the same gadget gives the same answer.
C11_StackPivotShape ==
    LET b == qgadget.instructions
        n == Len(b)
        expected == CASE n = 0 -> FALSE
                      [] n = 1 -> is_stack_pivot_tail(b[1])
                      [] OTHER -> \E i \in 1..(n - 1) : is_stack_pivot_head(b[i])
    IN \A a \in Answers("stack") : a = expected

\* C11 witness: is_stack_pivot was called twice on a gadget whose tail
\* pivots and whose only head does not, and twice answered FALSE.
C11_Witness ==
    /\ Len(qlog) = 2
    /\ \A i \in DOMAIN qlog : qlog[i] = [query |-> "stack", answer |-> FALSE]
    /\ Len(qgadget.instructions) = 2
    /\ qgadget.instructions[1].code = "pop"
    /\ qgadget.instructions[2].code = "retn"

\* C12: is_base_pivot is FALSE for a body of at most one instruction, and
\* for a longer body TRUE exactly when an instruction before the last
\* satisfies the base-pivot head predicate, the last one never being tested.
C12_BasePivotShape ==
    LET b == qgadget.instructions
        n == Len(b)
        expected == IF n <= 1 THEN FALSE
                    ELSE \E i \in 1..(n - 1) : is_base_pivot_head(b[i])
    IN \A a \in Answers("base") : a = expected

\* C12 witness: is_base_pivot answered FALSE for a gadget of one
\* instruction that satisfies the head predicate.
C12_Witness ==
    /\ qlog # <<>>
    /\ qlog[1] = [query |-> "base", answer |-> FALSE]
    /\ Len(qgadget.instructions) = 1
    /\ qgadget.instructions[1].code = "popbp"

\* sq is an initial part of full.
IsPrefix(sq, full) == Len(sq) <= Len(full) /\ sq = SubSeq(full, 1, Len(sq))

\* What an enumerator e of the two yields on its own from offset k of the
\* table on, in the build it runs in: nothing once it has panicked or
\* cannot leave the inner loop, the gadget of every offset that hits
\* otherwise.
RECURSIVE TwinAlone(_, _)
TwinAlone(e, k) ==
    IF k >= e.hi THEN <<>>
    ELSE IF e.max_instructions = 0 /\ overflow_checks THEN <<>>
    ELSE LET w == WalkAlone(SubSeq(shared, k + 1, e.hi), 0, <<>>, e.tail_instruction,
                            e.max_instructions, e.noisy)
         IN IF w.kind = "stuck" THEN <<>>
            ELSE IF w.kind = "hit"
            THEN <<MakeGadget(e.section_start, e.start0 + (k - e.lo0), w.instructions)>>
                    \o TwinAlone(e, k + 1)
            ELSE TwinAlone(e, k + 1)

\* The arguments an enumerator of the two was built with.
TwinArgs(e) ==
    <<e.section_start, e.tail_instruction, e.lo0, e.hi, e.max_instructions, e.noisy,
      e.start0>>

\* C13: whatever the order in which the steps of the two enumerators are
\* taken, what each has yielded is an initial part of what it yields on its
\* own, and all of it once it has stopped; two enumerators built with the
\* same arguments that have both stopped have yielded the same.
C13_InterleavingIndependent ==
    /\ \A i \in DOMAIN twins :
        /\ IsPrefix(twins[i].yielded, TwinAlone(twins[i], twins[i].lo0))
        /\ ~TwinEnabled(twins[i]) =>
              twins[i].yielded = TwinAlone(twins[i], twins[i].lo0)
    /\ (/\ twins # <<>>
        /\ TwinArgs(twins[1]) = TwinArgs(twins[2])
        /\ ~TwinEnabled(twins[1])
        /\ ~TwinEnabled(twins[2])) => twins[1].yielded = twins[2].yielded

\* C13 witness: two enumerators built with different arguments are both in
\* the middle of a next() call, each after having yielded a gadget.
C13_Witness ==
    /\ twins # <<>>
    /\ TwinArgs(twins[1]) # TwinArgs(twins[2])
    /\ twins[1].pc = "inner"
    /\ twins[2].pc \in {"outer", "inner"}
    /\ \A i \in DOMAIN twins : twins[i].yielded # <<>>

\* The tokens of the instruction-only rendering of a body, as the text of
\* the rendering describes them: every instruction's tokens and a
\* semicolon, with a blank before every instruction but the first.
RECURSIVE Rendering(_)
Rendering(body) ==
    IF body = <<>> THEN <<>>
    ELSE LET front == Front(body)
         IN  Rendering(front) \o (IF front = <<>> THEN <<>> ELSE << Blank >>)
                              \o FormatterFormat(Last(body)) \o << Semicolon >>

\* How many tokens the formatter writes for a body.
RECURSIVE FormatterTokens(_)
FormatterTokens(body) ==
    IF body = <<>> THEN 0
    ELSE Len(FormatterFormat(Head(body))) + FormatterTokens(Tail(body))

\* C14: the instruction-only rendering of a gadget of k >= 1 instructions
\* is, in order, every instruction's tokens followed by a semicolon token,
\* with one blank token between consecutive instructions: besides the
\* formatter's own tokens it holds k semicolons and k - 1 blanks, and its
\* last token is the semicolon of the last instruction. While the rendering
\* runs, the sink holds a prefix of that.
C14_InstructionRendering ==
    (fmode = "instruction" /\ fpc \in {"format_instruction", "done"}) =>
        LET k == Len(fgadget.instructions)
        IN  /\ IsPrefix(output, Rendering(fgadget.instructions))
            /\ (fpc = "done" /\ k >= 1) =>
                /\ output = Rendering(fgadget.instructions)
                /\ Len(output) = FormatterTokens(fgadget.instructions) + k + (k - 1)
                /\ Last(output) = Semicolon
                /\ Cardinality({p \in DOMAIN output : output[p] = Semicolon}) = k

\* C14 witness: an instruction-only rendering of three instructions, with a
\* formatter that writes blanks of its own, has returned.
C14_Witness ==
    /\ fmode = "instruction"
    /\ fpc = "done"
    /\ Len(fgadget.instructions) = 3
    /\ fgadget.instructions[1].code = "in"
    /\ Len(output) > 0

\* The file offset is below 2^32: it has at most 8 hexadecimal digits.
FitsEightDigits(x) == \A p \in 9..UsizeDigits : x[p] = 0

\* The digits of a usize from position n down to 1, leading zeroes kept.
DigitsFrom(x, n) == [p \in 1..n |-> HexDigit(x[n + 1 - p])]

\* The most significant digit of a usize that is not zero (1 for zero).
TopDigit(x) ==
    IF UsizeIsZero(x) THEN 1
    ELSE CHOOSE p \in 1..UsizeDigits : x[p] # 0 /\ \A q \in (p + 1)..UsizeDigits : x[q] = 0

\* C15 as stated: the full rendering starts with one Function token of
\* "0x", 8 hexadecimal digits and ": " (10 characters and the colon and
\* blank) for every file offset, followed by the instruction-only rendering.
C15_Original ==
    (fmode = "full" /\ fpc = "done") =>
        /\ output # <<>>
        /\ output[1].kind = "Function"
        /\ Len(output[1].text) = 10 + 2
        /\ Tail(output) = Rendering(fgadget.instructions)

\* C15 amended: the full rendering starts with one Function token made of
\* "0x", the file offset in lowercase hexadecimal padded with zeroes to at
\* least 8 digits, and ": ": exactly 8 digits (10 characters before the
\* colon) when the file offset is below 2^32, all its significant digits
\* (more than 8) otherwise. The instruction-only rendering follows, and no
\* other token of the output is of kind Function.
C15_FullRendering ==
    (fmode = "full" /\ fpc = "done") =>
        LET x == fgadget.file_offset
            n == IF FitsEightDigits(x) THEN 8 ELSE TopDigit(x)
        IN  /\ output # <<>>
            /\ output[1] = Token(<<"0", "x">> \o DigitsFrom(x, n) \o <<":", " ">>, "Function")
            /\ FitsEightDigits(x) <=> Len(output[1].text) = 10 + 2
            /\ Tail(output) = Rendering(fgadget.instructions)
            /\ \A p \in 2..Len(output) : output[p].kind # "Function"

\* C15 witness: a full rendering of a gadget whose file offset has more
\* than 8 hexadecimal digits has returned.
C15_Witness ==
    /\ fmode = "full"
    /\ fpc = "done"
    /\ ~FitsEightDigits(fgadget.file_offset)
    /\ fgadget.instructions # <<>>
    /\ Len(output) > 1

\* The cursor of window offset k after m legal heads, each one instruction
\* length after the one before; -1 when the walk meets an illegal head or
\* the end of the window before that.
RECURSIVE CursorAfter(_, _)
CursorAfter(k, m) ==
    IF m <= 0 THEN k
    ELSE LET p == CursorAfter(k, m - 1) IN
         IF p < 0 \/ p >= WindowLen THEN -1
         ELSE IF ~is_rop_gadget_head(table[p + 1], it.noisy) THEN -1
         ELSE p + InsLen(table[p + 1])

\* C16: an offset whose (max_instructions - 1)-th legal head lands exactly
\* on the tail yields a gadget of exactly max_instructions instructions; an
\* offset whose cursor is still short of the tail after max_instructions - 1
\* legal heads yields nothing; and an instruction is fetched, tested or
\* pushed only while the candidate list holds fewer than
\* max_instructions - 1 instructions.
C16_CapAtBoundary ==
    /\ [](\A k \in 0..(Completed - 1) :
            LET at == CursorAfter(k, it.max_instructions - 1) IN
            /\ (it.max_instructions >= 1 /\ at = WindowLen) =>
                /\ Cardinality(YieldsAt(k)) = 1
                /\ \A i \in YieldsAt(k) :
                    Len(yielded[i].gadget.instructions) = it.max_instructions
            /\ (it.max_instructions >= 1 /\ at >= 0 /\ at < WindowLen) =>
                YieldsAt(k) = {})
    /\ [][(pc = "inner" /\ (instructions' # instructions \/ FetchedBad)
                        /\ pc' \in {"inner", "outer"}) =>
            Len(instructions) < it.max_instructions - 1]_vars

\* C17: the view is the window without its first start_index - s0 entries,
\* so start_index plus the length of the view never changes; a step of
\* next() leaves the view as it is or drops its first entry, and leaves the
\* caller's table as it is.
C17_ViewNarrowing ==
    /\ [](pc # "new" =>
            /\ Completed \in 0..WindowLen
            /\ it.predecessors = SubSeq(table, Completed + 1, WindowLen)
            /\ it.start_index + Len(it.predecessors) = s0 + WindowLen)
    /\ [][pc # "new" =>
            /\ table' = table
            /\ \/ it'.predecessors = it.predecessors
               \/ /\ it.predecessors # <<>>
                  /\ it'.predecessors = Tail(it.predecessors)]_vars

\* C17 witness: the view has been narrowed twice and is not empty, with a
\* call of next() under way.
C17_Witness ==
    /\ pc = "inner"
    /\ Completed = 2
    /\ it.predecessors # <<>>
    /\ yielded # <<>>

\* Every instruction of the table is at least one byte long.
AllLensPositive == \A j \in DOMAIN table : InsLen(table[j]) >= 1

\* C18: when every instruction of the table is at least one byte long,
\* every yielded gadget has two instructions or more and is never the tail
\* alone, an empty window and a cap of 1 yield nothing, and is_stack_pivot
\* of a yielded gadget is decided by its heads.
C18_AtLeastTwoInstructions ==
    AllLensPositive =>
        /\ \A i \in DOMAIN yielded :
            LET g == yielded[i].gadget IN
            /\ Len(g.instructions) >= 2
            /\ g.instructions # << it.tail_instruction >>
            /\ is_stack_pivot(g) = AnyStackPivotHead(Heads(g.instructions))
        /\ (table = <<>> \/ it.max_instructions = 1) => yielded = <<>>

\* C18 witness: a drained enumerator over a window of two instructions or
\* more, each at least one byte long, that yielded a gadget of exactly two
\* instructions.
C18_Witness ==
    /\ Drained
    /\ AllLensPositive
    /\ WindowLen >= 2
    /\ \E i \in DOMAIN yielded : Len(yielded[i].gadget.instructions) = 2

\* Instructions of the table that are equal have equal byte lengths.
EqualMeansEqualLength ==
    \A a, b \in Range(table) \cup {it.tail_instruction} :
        InstructionEq(a, b) => InsLen(a) = InsLen(b)

\* The set a caller gets by inserting the gadgets of a log one by one.
RECURSIVE InsertAll(_, _)
InsertAll(set, log) ==
    IF log = <<>> THEN set
    ELSE InsertAll(HashSetInsert(set, Head(log).gadget), Tail(log))

\* C19: when equal instructions of the table have equal byte lengths, no
\* two gadgets yielded by the enumerator are equal, and a HashSet the
\* gadgets are inserted into holds as many gadgets as were yielded.
C19_PairwiseUnequal ==
    EqualMeansEqualLength =>
        /\ \A i, j \in DOMAIN yielded :
            i # j => ~GadgetEq(yielded[i].gadget, yielded[j].gadget)
        /\ Cardinality(InsertAll({}, yielded)) = Len(yielded)

\* C19 witness: a drained enumerator over a table whose equal instructions
\* have equal lengths yielded two gadgets with the same number of
\* instructions.
C19_Witness ==
    /\ Drained
    /\ EqualMeansEqualLength
    /\ \E i, j \in DOMAIN yielded :
        /\ i # j
        /\ Len(yielded[i].gadget.instructions) = Len(yielded[j].gadget.instructions)

====
